---- MODULE Spec2Model ----
(***************************************************************************)
(* Store locator of Siraha Bazaar: the NearbyStores / StoreMap views       *)
(* (client/src/components), their location acquisition and their ranking   *)
(* of stores by distance from the user.                                    *)
(*                                                                         *)
(* JavaScript numbers are modelled in decimal fixed point: NumScale units  *)
(* per 1 for coordinates (degrees), distances (km) and parsed strings,     *)
(* TrigScale units per 1 for radians and for the values of sin / cos.      *)
(* A number is a record [nan, v]; NaN propagates as in IEEE arithmetic.    *)
(* Strings are sequences of one-character strings.                         *)
(***************************************************************************)
EXTENDS Integers, Sequences, FiniteSets, TLC

VARIABLES
  view,            \* the component: "NearbyStores" or "StoreMap"
  stores,          \* the store records (prop / query data)
  manualLocation,  \* StoreMap: the manual latitude / longitude texts
  userLocation,    \* Null or [lat, lng, req]; req: the request that set it
  loading,
  error,
  mounted,         \* NearbyStores: the mount effect has run
  pending,         \* getUserLocation calls awaiting the position callback
  nextReq,         \* number of location updates issued so far
  newest,          \* history: the latest-issued update committed so far
  settled,         \* history: the getUserLocation call that settled last,
                   \* with the kind of its failure
  nearbyStores,    \* getNearbyStores() of the last render
  call,            \* the call of a function specification; in SpecRerank
                   \* the engine and the rankings returned so far
  auth,            \* the useAuth store: user, token, isAuthenticated, isAdmin
  admin,           \* AdminPanel: its state, local storage, requests in flight
  cart,            \* the cart page: the item shown and its update requests
  timeLeft         \* Homepage: seconds left of the countdown

\* The store locator, and the rest of the site.
locator == <<view, stores, manualLocation, userLocation, loading, error,
             mounted, pending, nextReq, newest, settled, nearbyStores>>
site == <<auth, admin, cart, timeLeft>>

vars == <<view, stores, manualLocation, userLocation, loading, error, mounted,
          pending, nextReq, newest, settled, nearbyStores, call,
          auth, admin, cart, timeLeft>>

----------------------------------------------------------------------------
(* Fixed-point arithmetic                                                  *)

NumScale == 10 ^ 4
TrigBase == 10 ^ 4
TrigScale == TrigBase * TrigBase

Abs(x) == IF x < 0 THEN -x ELSE x
Sgn(x) == IF x < 0 THEN -1 ELSE 1
Max(a, b) == IF a >= b THEN a ELSE b

\* x * y on TrigScale values, from the halves of x and y in base TrigBase
\* (the product itself does not fit the integers).
FMulNat(a1, a0, b1, b0) ==
  a1 * b1 + (a1 * b0 + a0 * b1 + (a0 * b0) \div TrigBase) \div TrigBase

FMul(x, y) ==
  Sgn(x) * Sgn(y) * FMulNat(Abs(x) \div TrigBase, Abs(x) % TrigBase,
                            Abs(y) \div TrigBase, Abs(y) % TrigBase)

\* The first k decimals of r / y for 0 <= r < y < 2^31 / 10, behind q.
RECURSIVE DivDigits(_, _, _, _)
DivDigits(r, y, k, q) ==
  IF k = 0 \/ r < 0 THEN q
  ELSE DivDigits((r * 10) % y, y, k - 1, q * 10 + (r * 10) \div y)

\* x / y on TrigScale values, for 0 < |y| < 2^31 / 10 and |x / y| < 21.
FDivNat(a, y) == DivDigits(a % y, y, 8, a \div y)

FDiv(x, y) == Sgn(x) * Sgn(y) * FDivNat(Abs(x), Abs(y))

\* Math.PI, and the factors of deg * Math.PI / 180 (at scale 10^10) and of
\* rad * 180 / Math.PI (at scale 10^7).
PiS == 314159265
HalfPiS == (PiS + 1) \div 2
TwoPiS == 2 * PiS
RadPerDeg == (PiS * 5) \div 9
DegPerRad == FDiv(90 * (10 ^ 7), HalfPiS)

\* floor(sqrt(n)) for a natural n, by bisection on lo <= sqrt(n) < hi.
RECURSIVE ISqrtIn(_, _, _)
ISqrtIn(n, lo, hi) ==
  IF hi - lo <= 1 THEN lo
  ELSE LET mid == (lo + hi) \div 2
       IN  IF mid * mid <= n THEN ISqrtIn(n, mid, hi) ELSE ISqrtIn(n, lo, mid)

ISqrt(n) == ISqrtIn(n, 0, 46341)

\* Math.sqrt of a TrigScale value v >= 0: Newton steps from the integer root.
RECURSIVE NewtonSqrt(_, _, _)
NewtonNext(v, x, y, n) ==
  IF n = 0 \/ Abs(y - x) <= 1 THEN y ELSE NewtonSqrt(v, y, n - 1)

NewtonSqrt(v, x, n) == NewtonNext(v, x, (x + FDiv(v, x)) \div 2, n)

FSqrt(v) == IF v <= 0 THEN 0 ELSE NewtonSqrt(v, ISqrt(v) * TrigBase + 1, 30)

\* x - x^3/3! + x^5/5! - ... for 0 <= x <= pi/2; term is the last term.
RECURSIVE SinSeries(_, _, _, _)
SinTerm(x2, t, k, acc) ==
  SinSeries(x2, t, k + 1, IF k % 2 = 1 THEN acc - t ELSE acc + t)

SinSeries(x2, term, k, acc) ==
  IF term = 0 \/ k > 14 THEN acc
  ELSE SinTerm(x2, FMul(term, x2) \div ((2 * k) * (2 * k + 1)), k, acc)

SinQ(x) == SinSeries(FMul(x, x), x, 1, x)

\* Math.sin / Math.cos of an angle in radians: r is x brought into
\* [-pi, pi), then sin(pi - r) = sin(r).
SinR(r) == Sgn(r) * SinQ(IF Abs(r) > HalfPiS THEN PiS - Abs(r) ELSE Abs(r))

Sin(x) == SinR(((x + PiS) % TwoPiS) - PiS)

Cos(x) == Sin(x + HalfPiS)

\* u - u^3/3 + u^5/5 - ... for 0 <= u <= tan(pi/8); pow is the last power.
RECURSIVE AtanSeries(_, _, _, _)
AtanTerm(u2, p, k, acc) ==
  AtanSeries(u2, p, k + 1,
             IF k % 2 = 1 THEN acc - p \div (2 * k + 1)
             ELSE acc + p \div (2 * k + 1))

AtanSeries(u2, pow, k, acc) ==
  IF pow = 0 \/ k > 16 THEN acc ELSE AtanTerm(u2, FMul(pow, u2), k, acc)

AtanSmall(u) == AtanSeries(FMul(u, u), u, 1, u)

\* atan(t) for 0 <= t <= 1; beyond tan(pi/8) = sqrt(2) - 1 by
\* atan(t) = pi/4 - atan((1 - t) / (1 + t)).
TanPi8 == FSqrt(2 * TrigScale) - TrigScale

AtanUnit(t) ==
  IF t <= TanPi8 THEN AtanSmall(t)
  ELSE (HalfPiS \div 2) - AtanSmall(FDiv(TrigScale - t, TrigScale + t))

\* atan(a / b) for a, b >= 0, not both 0.
AtanRatio(a, b) ==
  IF a = 0 THEN 0
  ELSE IF a <= b THEN AtanUnit(FDiv(a, b))
  ELSE HalfPiS - AtanUnit(FDiv(b, a))

\* Math.atan2(y, x) in radians, in (-pi, pi]; t0 is atan(|y| / |x|).
Atan2Quadrant(y, x, t0) == Sgn(y) * (IF x < 0 THEN PiS - t0 ELSE t0)

Atan2(y, x) == Atan2Quadrant(y, x, AtanRatio(Abs(y), Abs(x)))

----------------------------------------------------------------------------
(* JavaScript numbers and strings                                          *)

Num(v) == [nan |-> FALSE, v |-> v]
NaN == [nan |-> TRUE, v |-> 0]
\* undefined, and what a template literal makes of it
Undefined == <<"undefined">>
UndefinedText == <<"u", "n", "d", "e", "f", "i", "n", "e", "d">>
Null == [null |-> TRUE]

DigitChars == <<"0", "1", "2", "3", "4", "5", "6", "7", "8", "9">>
IsDigit(c) == \E i \in 1..10 : DigitChars[i] = c
DigitVal(c) == (CHOOSE i \in 1..10 : DigitChars[i] = c) - 1

\* The decimal digits of a natural number.
RECURSIVE IntToStr(_)
IntToStr(n) ==
  IF n < 10 THEN <<DigitChars[n + 1]>>
  ELSE IntToStr(n \div 10) \o <<DigitChars[(n % 10) + 1]>>

RECURSIVE Pow10(_)
Pow10(k) == IF k = 0 THEN 1 ELSE 10 * Pow10(k - 1)

\* Number.prototype.toFixed(f) for f in 0..4: the nearest multiple of 10^-f,
\* the larger one at a tie, sign first, "NaN" for NaN.
ToFixed(x, f) ==
  IF x.nan THEN <<"N", "a", "N">>
  ELSE LET unit == NumScale \div Pow10(f)
           n    == (Abs(x.v) + unit \div 2) \div unit
           int  == IntToStr(n \div Pow10(f))
           frac == IntToStr(Pow10(f) + (n % Pow10(f)))
           body == IF f = 0 THEN int ELSE int \o <<".">> \o Tail(frac)
       IN  IF x.v < 0 /\ n > 0 THEN <<"-">> \o body ELSE body

\* Number of digit characters of s from position i on.
RECURSIVE CountDigits(_, _)
CountDigits(s, i) ==
  IF i <= Len(s) /\ IsDigit(s[i]) THEN 1 + CountDigits(s, i + 1) ELSE 0

\* Value of the n digits of s from position i, continuing from acc.
RECURSIVE DigitsValue(_, _, _, _)
DigitsValue(s, i, n, acc) ==
  IF n = 0 THEN acc ELSE DigitsValue(s, i + 1, n - 1, 10 * acc + DigitVal(s[i]))

RECURSIVE SkipSpaces(_, _)
SkipSpaces(s, i) ==
  IF i <= Len(s) /\ s[i] = " " THEN SkipSpaces(s, i + 1) ELSE i

\* parseFloat: leading blanks, a sign, then the longest prefix that is a
\* decimal literal (digits, a point, digits); NaN when there is no digit.
\* Fraction digits beyond the fourth are dropped (the resolution NumScale).
ParseValue(s, sign, i1, intLen, used) ==
  Num(sign * (DigitsValue(s, i1, intLen, 0) * NumScale +
              DigitsValue(s, i1 + intLen + 1, used, 0) * Pow10(4 - used)))

ParseDigits(s, sign, i1, intLen, fracLen) ==
  IF intLen + fracLen = 0 THEN NaN
  ELSE ParseValue(s, sign, i1, intLen, IF fracLen > 4 THEN 4 ELSE fracLen)

ParseFraction(s, sign, i1, intLen) ==
  ParseDigits(s, sign, i1, intLen,
              IF i1 + intLen <= Len(s) /\ s[i1 + intLen] = "."
              THEN CountDigits(s, i1 + intLen + 1) ELSE 0)

ParseSigned(s, sign, i1) == ParseFraction(s, sign, i1, CountDigits(s, i1))

ParseFrom(s, i0) ==
  ParseSigned(s, IF i0 <= Len(s) /\ s[i0] = "-" THEN -1 ELSE 1,
              IF i0 <= Len(s) /\ s[i0] \in {"-", "+"} THEN i0 + 1 ELSE i0)

ParseFloat(s) == ParseFrom(s, SkipSpaces(s, 1))

\* s.split(' ')[0]: the characters before the first blank.
RECURSIVE SplitFirst(_)
SplitFirst(s) ==
  IF s = <<>> \/ Head(s) = " " THEN <<>> ELSE <<Head(s)>> \o SplitFirst(Tail(s))

----------------------------------------------------------------------------
(* Distance, bearing and formatting (NearbyStores.tsx, StoreMap.tsx)       *)

R == 6371

\* deg * Math.PI / 180, for |deg| <= 360
Rad(deg) == FMul(deg * 100, RadPerDeg)

Half(x) == Sgn(x) * (Abs(x) \div 2)

\* Math.sqrt(a) for a = s1 * s1 + cc * s2 * s2, formed from the sines scaled
\* down by d so that the squares fit; NaN when a < 0.
SqrtScale(m) ==
  IF m < 32768 THEN 1 ELSE IF m < 327680 THEN 10
  ELSE IF m < 3276800 THEN 100 ELSE IF m < 32768000 THEN 1000
  ELSE 10000

SqrtOf(h2, d) == IF h2 < 0 THEN NaN ELSE Num(ISqrt(h2) * d)

SqrtScaled(t1, t2, cc, d) ==
  SqrtOf(t1 * t1 + FMul(t2 * t2, cc), d)

SqrtBy(s1, s2, cc, d) == SqrtScaled(Abs(s1) \div d, Abs(s2) \div d, cc, d)

SqrtA(s1, s2, cc) == SqrtBy(s1, s2, cc, SqrtScale(Max(Abs(s1), Abs(s2))))

\* centralAngle without the factor 2.
centralAngleSingle(sqrtA, a) ==
  IF a > TrigScale THEN NaN
  ELSE Num(FMul(Atan2(sqrtA, FSqrt(TrigScale - a)), R * NumScale))

\* R * c for c = 2 * Math.atan2(Math.sqrt(a), Math.sqrt(1 - a)).
centralAngle(sqrtA, a) ==
  IF a > TrigScale THEN NaN
  ELSE Num(FMul(2 * Atan2(sqrtA, FSqrt(TrigScale - a)), R * NumScale))

haversine(sqrtA) ==
  IF sqrtA.nan THEN NaN ELSE centralAngle(sqrtA.v, FMul(sqrtA.v, sqrtA.v))

\* calculateDistance with the cosine of lat1 for both points.
calculateDistanceOneLatitude(lat1, lon1, lat2, lon2) ==
  IF lat1.nan \/ lon1.nan \/ lat2.nan \/ lon2.nan THEN NaN
  ELSE LET dLat == Rad(lat2.v - lat1.v)
           dLon == Rad(lon2.v - lon1.v)
       IN  haversine(SqrtA(Sin(Half(dLat)), Sin(Half(dLon)),
                           FMul(Cos(Rad(lat1.v)), Cos(Rad(lat1.v)))))

\* calculateDistance with dLat from the sum of the latitudes.
calculateDistanceSum(lat1, lon1, lat2, lon2) ==
  IF lat1.nan \/ lon1.nan \/ lat2.nan \/ lon2.nan THEN NaN
  ELSE LET dLat == Rad(lat2.v + lat1.v)
           dLon == Rad(lon2.v - lon1.v)
       IN  haversine(SqrtA(Sin(Half(dLat)), Sin(Half(dLon)),
                           FMul(Cos(Rad(lat1.v)), Cos(Rad(lat2.v)))))

\* Haversine distance in km.
calculateDistance(lat1, lon1, lat2, lon2) ==
  IF lat1.nan \/ lon1.nan \/ lat2.nan \/ lon2.nan THEN NaN
  ELSE LET dLat == Rad(lat2.v - lat1.v)
           dLon == Rad(lon2.v - lon1.v)
       IN  haversine(SqrtA(Sin(Half(dLat)), Sin(Half(dLon)),
                           FMul(Cos(Rad(lat1.v)), Cos(Rad(lat2.v)))))

\* Math.atan2(y, x) * 180 / Math.PI of the forward azimuth, in degrees.
\* rad * 180 / Math.PI, to the nearest unit of NumScale
degrees(rad) == Num(Sgn(rad) * ((Abs(FMul(rad, DegPerRad)) + 500) \div 1000))

azimuth(la1, la2, dLon) ==
  degrees(Atan2(FMul(Sin(dLon), Cos(la2)),
                FMul(Cos(la1), Sin(la2)) -
                  FMul(FMul(Sin(la1), Cos(la2)), Cos(dLon))))

bearing(lat1, lon1, lat2, lon2) ==
  IF lat1.nan \/ lon1.nan \/ lat2.nan \/ lon2.nan THEN NaN
  ELSE azimuth(Rad(lat1.v), Rad(lat2.v), Rad(lon2.v - lon1.v))

directions ==
  << <<"N">>, <<"N", "E">>, <<"E">>, <<"S", "E">>,
     <<"S">>, <<"S", "W">>, <<"W">>, <<"N", "W">> >>

\* Math.round(x / 45): the nearest integer, the larger one at a tie.
RoundDiv45(x) == (2 * x + 45 * NumScale) \div (2 * 45 * NumScale)

\* JavaScript %: the remainder has the sign of the dividend.
JsRem(a, n) == IF a >= 0 THEN a % n ELSE -((-a) % n)

\* Math.round(bearing / 45) % 8
directionIndex(b) == IF b.nan THEN NaN ELSE Num(JsRem(RoundDiv45(b.v), 8))

\* directions[index - 1]: the array taken as counted from one.
directionAtFromOne(index) ==
  IF ~index.nan /\ index.v \in 1..8 THEN directions[index.v] ELSE Undefined

\* directions[index]: undefined when index is no index of the array.
directionAt(index) ==
  IF ~index.nan /\ index.v \in 0..7 THEN directions[index.v + 1] ELSE Undefined

calculateDirection(lat1, lon1, lat2, lon2) ==
  directionAt(directionIndex(bearing(lat1, lon1, lat2, lon2)))

\* formatDistance with the kilometre branch above 1 km only.
formatDistanceAbove(distance) ==
  IF ~distance.nan /\ distance.v > NumScale
  THEN ToFixed(distance, 1) \o <<"k", "m">>
  ELSE ToFixed(IF distance.nan THEN NaN ELSE Num(distance.v * 1000), 0) \o <<"m">>

formatDistance(distance) ==
  IF ~distance.nan /\ distance.v >= NumScale
  THEN ToFixed(distance, 1) \o <<"k", "m">>
  ELSE ToFixed(IF distance.nan THEN NaN ELSE Num(distance.v * 1000), 0) \o <<"m">>

----------------------------------------------------------------------------
(* Ranking: getNearbyStores                                                *)

\* store.latitude ?? '0': only a missing text counts as "0".
OrZeroNullish(store, field) ==
  IF field \in DOMAIN store THEN store[field] ELSE <<"0">>

\* store.latitude || '0': a missing or empty text counts as "0".
OrZero(store, field) ==
  IF field \in DOMAIN store /\ store[field] # <<>> THEN store[field]
  ELSE <<"0">>

\* `${formatDistance(distance)} (${direction})`
distanceText(distance, direction) ==
  formatDistance(distance) \o <<" ", "(">> \o
  (IF direction = Undefined THEN UndefinedText ELSE direction) \o <<")">>

\* The body of the map callback: one store with its location and its
\* distance text.
rankedAt(loc, store, storeLocation) ==
  [store         |-> store,
   storeLocation |-> storeLocation,
   distance      |->
     distanceText(calculateDistance(loc.lat, loc.lng,
                                    storeLocation.lat, storeLocation.lng),
                  calculateDirection(loc.lat, loc.lng,
                                     storeLocation.lat, storeLocation.lng))]

rankedStore(loc, store) ==
  rankedAt(loc, store, [lat |-> ParseFloat(OrZero(store, "latitude")),
                        lng |-> ParseFloat(OrZero(store, "longitude"))])

\* The sort callback: aDist - bDist on the parsed first words; a NaN result
\* counts as +0 (Array.prototype.sort).
difference(aDist, bDist) ==
  IF aDist.nan \/ bDist.nan THEN 0 ELSE aDist.v - bDist.v

\* The comparator with its operands exchanged (bDist - aDist).
compareFnDescending(a, b) ==
  difference(ParseFloat(SplitFirst(b.distance)),
             ParseFloat(SplitFirst(a.distance)))

compareFn(a, b) ==
  difference(ParseFloat(SplitFirst(a.distance)),
             ParseFloat(SplitFirst(b.distance)))

\* compareFn is a consistent comparator for the elements of seq.
Transitive(ab, bc, ac) ==
  /\ (ab = 0 /\ bc = 0) => ac = 0
  /\ (ab < 0 /\ bc < 0) => ac < 0
  /\ (ab > 0 /\ bc > 0) => ac > 0

Consistent(seq) ==
  \A i, j, k \in 1..Len(seq) :
    Transitive(compareFn(seq[i], seq[j]), compareFn(seq[j], seq[k]),
               compareFn(seq[i], seq[k]))

\* Stable insertion: x goes behind every element that does not follow it.
RECURSIVE InsertSorted(_, _)
InsertSorted(sorted, x) ==
  IF sorted = <<>> THEN <<x>>
  ELSE LET last == sorted[Len(sorted)]
       IN  IF compareFn(x, last) < 0
           THEN InsertSorted(SubSeq(sorted, 1, Len(sorted) - 1), x) \o <<last>>
           ELSE sorted \o <<x>>

RECURSIVE StableSort(_)
StableSort(seq) ==
  IF seq = <<>> THEN <<>>
  ELSE InsertSorted(StableSort(SubSeq(seq, 1, Len(seq) - 1)), seq[Len(seq)])

Orderings(seq) ==
  {[i \in 1..Len(seq) |-> seq[p[i]]] : p \in Permutations(1..Len(seq))}

\* Insertion from the front: x goes before the first element that follows it.
RECURSIVE InsertForward(_, _)
InsertForward(sorted, x) ==
  IF sorted = <<>> THEN <<x>>
  ELSE IF compareFn(x, Head(sorted)) < 0 THEN <<x>> \o sorted
       ELSE <<Head(sorted)>> \o InsertForward(Tail(sorted), x)

RECURSIVE ForwardSort(_)
ForwardSort(seq) ==
  IF seq = <<>> THEN <<>>
  ELSE InsertForward(ForwardSort(SubSeq(seq, 1, Len(seq) - 1)), seq[Len(seq)])

\* The sort of one engine is one algorithm: the same array and comparator
\* give the same order on every call. Two stable algorithms that order an
\* array differently when the comparator is not consistent.
Engines == {"backward", "forward"}

engineSort(engine, seq) ==
  IF engine = "backward" THEN StableSort(seq) ELSE ForwardSort(seq)

\* Array.prototype.sort(compareFn): the stable order for a consistent
\* comparator, an implementation-defined order of the elements otherwise.
sortOutcomes(seq) ==
  IF Consistent(seq) THEN {StableSort(seq)} ELSE Orderings(seq)

----------------------------------------------------------------------------------------------------------------------------------------
(* Inputs                                                                  *)

\* sampleStores: Kathmandu, Biratnagar, Pokhara, Lalitpur, Birgunj.
sampleStores ==
  << [id |-> 1, latitude  |-> <<"2", "7", ".", "7", "0", "5", "8">>,
                longitude |-> <<"8", "5", ".", "3", "2", "9", "2">>],
     [id |-> 2, latitude  |-> <<"2", "6", ".", "4", "6", "7", "2">>,
                longitude |-> <<"8", "7", ".", "2", "7", "4", "4">>],
     [id |-> 3, latitude  |-> <<"2", "8", ".", "2", "4", "1", "8">>,
                longitude |-> <<"8", "3", ".", "9", "7", "1", "8">>],
     [id |-> 4, latitude  |-> <<"2", "7", ".", "6", "6", "7", "2">>,
                longitude |-> <<"8", "5", ".", "3", "2", "4", "0">>],
     [id |-> 5, latitude  |-> <<"2", "7", ".", "2", "5", "4", "3">>,
                longitude |-> <<"8", "4", ".", "7", "2", "2", "2">>] >>

\* The places of the sample stores, as points.
SamplePoints ==
  {[lat |-> ParseFloat(sampleStores[i].latitude).v,
    lng |-> ParseFloat(sampleStores[i].longitude).v] : i \in 1..Len(sampleStores)}

MaxStores == 4
MaxRequests == 3

\* Readings of the location sensor: Maitidevi (Kathmandu) and a point west
\* of it.
Positions ==
  { [lat |-> 277058, lng |-> 853292],
    [lat |-> 277058, lng |-> 852900] }

\* Store records as the API delivers them: coordinate texts, possibly
\* missing, empty, not numeric or out of range. Stores 2 and 3 share one place
\* some 360 m from Maitidevi; store 4 is in Lalitpur, some 4 km away.
StorePool ==
  { [id |-> 2, latitude  |-> <<"2", "7", ".", "7", "0", "9">>,
               longitude |-> <<"8", "5", ".", "3", "2", "9", "2">>],
    [id |-> 3, latitude  |-> <<"2", "7", ".", "7", "0", "9">>,
               longitude |-> <<"8", "5", ".", "3", "2", "9", "2">>],
    [id |-> 4, latitude  |-> <<"2", "7", ".", "6", "6", "7", "2">>,
               longitude |-> <<"8", "5", ".", "3", "2", "4", "0">>],
    [id |-> 6, latitude  |-> <<"a", "b", "c">>,
               longitude |-> <<"8", "5", ".", "3", "2", "4", "0">>],
    [id |-> 7, longitude |-> <<>>],
    [id |-> 9, latitude  |-> <<"1", "2", "0">>,
               longitude |-> <<"8", "5">>] }

\* Lists of up to MaxStores different stores, in any order.
StoreLists ==
  UNION { {l \in [1..n -> StorePool] :
             \A i, j \in 1..n : i # j => l[i].id # l[j].id} : n \in 0..MaxStores }

\* The view specification ranks lists of these stores only.
ViewStoreIds == {2, 4}
ViewStoreLists == {l \in StoreLists : \A i \in 1..Len(l) : l[i].id \in ViewStoreIds}

\* userLocation as a position callback sets it.
Located(pos, req) == [lat |-> Num(pos.lat), lng |-> Num(pos.lng), req |-> req]

\* stores.map(store => ...)
RECURSIVE MapStores(_, _)
MapStores(loc, list) ==
  IF list = <<>> THEN <<>>
  ELSE <<rankedStore(loc, Head(list))>> \o MapStores(loc, Tail(list))

\* The sort key of a ranked store is a number.
HasNumericKey(s) == ~ParseFloat(SplitFirst(s.distance)).nan

\* getNearbyStores dropping the stores whose distance is no number.
getNearbyStoresNumeric(loc, list) ==
  IF loc = Null THEN {<<>>}
  ELSE sortOutcomes(SelectSeq(MapStores(loc, list), HasNumericKey))

\* getNearbyStores throwing (returning nothing) when a coordinate of a store
\* is no number.
getNearbyStoresStrict(loc, list) ==
  IF loc = Null THEN {<<>>}
  ELSE IF \E i \in 1..Len(list) :
            \/ ParseFloat(OrZero(list[i], "latitude")).nan
            \/ ParseFloat(OrZero(list[i], "longitude")).nan
       THEN {}
       ELSE sortOutcomes(MapStores(loc, list))

\* The arrays getNearbyStores() can return.
getNearbyStores(loc, list) ==
  IF loc = Null THEN {<<>>} ELSE sortOutcomes(MapStores(loc, list))

\* getNearbyStores sorting the list it returned last (kept between calls)
\* instead of a new one.
getNearbyStoresResorting(engine, loc, list) ==
  IF loc = Null THEN <<>>
  ELSE engineSort(engine,
         MapStores(loc, IF nearbyStores = <<>> THEN list
                        ELSE [i \in 1..Len(nearbyStores) |-> nearbyStores[i].store]))

\* The array getNearbyStores() returns on one engine.
getNearbyStoresOn(engine, loc, list) ==
  IF loc = Null THEN <<>> ELSE engineSort(engine, MapStores(loc, list))

FailureKinds == {"unsupported", "denied", "unavailable", "timeout"}

ErrorMessage ==
  "Unable to get your location. Please make sure location services are enabled."

NoError == "null"

\* The catch branch: the text setError is given for a failure of this kind
\* (err itself goes to console.error only).
Surfaced(kind) == ErrorMessage

----------------------------------------------------------------------------
(* The rest of the site as its components construct it                     *)

\* create<AuthState>(): user: null, isAuthenticated: false, isAdmin: false,
\* token: null
AuthInit ==
  auth = [user |-> Null, isAuthenticated |-> FALSE, isAdmin |-> FALSE,
          token |-> Null]

\* useState(24 * 60 * 60)
CountdownInit == timeLeft = 24 * 60 * 60

MaxVisits == 2
MaxStock == 3
MaxClicks == 3

\* AdminPanel as it mounts: not authenticated, checkAdminAccess under way
\* (instance 1); token is what local storage holds under "adminToken".
AdminMounted(token) ==
  [location |-> "/admin", instance |-> 1, isAdminAuthenticated |-> FALSE,
   by |-> "none", adminToken |-> token, verifies |-> {1}, logins |-> {},
   event |-> [op |-> "mount"]]

AdminInit == admin = AdminMounted(Null)

\* The cart page showing one item: its product (Null when missing, stock
\* Null when the product has none), its quantity, the updates in flight,
\* every quantity requested so far, the error notification.
CartShowing(product, quantity) ==
  [product |-> product, quantity |-> quantity, start |-> quantity,
   updates |-> {}, clicks |-> 0, requested |-> {}, toast |-> Null,
   event |-> [op |-> "render"]]

CartInit == cart = CartShowing([stock |-> 1], 1)

SiteInit == AuthInit /\ AdminInit /\ CartInit /\ CountdownInit

----------------------------------------------------------------------------
(* The view: state, location acquisition                                   *)

Init ==
  /\ SiteInit
  /\ view \in {"NearbyStores", "StoreMap"}
  /\ stores \in ViewStoreLists
  /\ manualLocation = [lat |-> <<>>, lon |-> <<>>]
  /\ userLocation = Null
  /\ loading = FALSE
  /\ error = NoError
  /\ mounted = FALSE
  /\ pending = {}
  /\ nextReq = 0
  /\ newest = 0
  /\ settled = [id |-> 0, ok |-> TRUE, had |-> 0, kind |-> "none"]
  /\ nearbyStores = <<>>
  /\ call = [op |-> "none"]

\* const nearbyStores = getNearbyStores(), on the render after an update.
Render == nearbyStores' \in getNearbyStores(userLocation', stores')

Stamp(loc) == IF loc = Null THEN 0 ELSE loc.req

\* getUserLocation up to its await: the flags, and the position request.
StartRequest ==
  /\ UNCHANGED site
  /\ nextReq < MaxRequests
  /\ loading' = TRUE
  /\ error' = NoError
  /\ nextReq' = nextReq + 1
  /\ pending' = pending \cup {[id |-> nextReq + 1, had |-> Stamp(userLocation)]}
  /\ UNCHANGED <<view, stores, manualLocation, userLocation, newest, settled,
                 call>>
  /\ Render

\* useEffect(() => { getUserLocation(); }, []) of NearbyStores: run once
\* after the first render, whatever loading is by then.
MountEffect ==
  /\ view = "NearbyStores"
  /\ ~mounted
  /\ mounted' = TRUE
  /\ StartRequest

\* The Refresh Location button: onClick={getUserLocation}, disabled={loading}.
RefreshClick ==
  /\ ~loading
  /\ UNCHANGED mounted
  /\ StartRequest

\* The callbacks of a position request run in a later task than the one
\* that issued it, and the mount effect of NearbyStores has run by then.
Arrived(r) == r \in pending /\ (view = "NearbyStores" => mounted)

\* Resolve committing the position only of a request newer than the one
\* committed last.
ResolveLatest(r, pos) ==
  /\ UNCHANGED site
  /\ Arrived(r)
  /\ userLocation' = IF r.id > newest THEN Located(pos, r.id) ELSE userLocation
  /\ loading' = FALSE
  /\ pending' = pending \ {r}
  /\ newest' = Max(newest, r.id)
  /\ settled' = [id |-> r.id, ok |-> TRUE, had |-> r.had, kind |-> "none"]
  /\ UNCHANGED <<view, stores, manualLocation, error, mounted, nextReq, call>>
  /\ Render

\* The position callback resolves the promise: setUserLocation, then finally.
Resolve(r, pos) ==
  /\ UNCHANGED site
  /\ Arrived(r)
  /\ userLocation' = Located(pos, r.id)
  /\ loading' = FALSE
  /\ pending' = pending \ {r}
  /\ newest' = Max(newest, r.id)
  /\ settled' = [id |-> r.id, ok |-> TRUE, had |-> r.had, kind |-> "none"]
  /\ UNCHANGED <<view, stores, manualLocation, error, mounted, nextReq, call>>
  /\ Render

\* Reject dropping the location held.
RejectClears(r, kind) ==
  /\ UNCHANGED site
  /\ Arrived(r)
  /\ error' = Surfaced(kind)
  /\ userLocation' = Null
  /\ loading' = FALSE
  /\ pending' = pending \ {r}
  /\ settled' = [id |-> r.id, ok |-> FALSE, had |-> r.had, kind |-> kind]
  /\ UNCHANGED <<view, stores, manualLocation, mounted, nextReq, newest, call>>
  /\ Render

\* Reject calling getUserLocation again.
RejectRetries(r, kind) ==
  /\ UNCHANGED site
  /\ Arrived(r)
  /\ nextReq < MaxRequests
  /\ error' = Surfaced(kind)
  /\ loading' = TRUE
  /\ nextReq' = nextReq + 1
  /\ pending' = (pending \ {r})
                  \cup {[id |-> nextReq + 1, had |-> Stamp(userLocation)]}
  /\ settled' = [id |-> r.id, ok |-> FALSE, had |-> r.had, kind |-> kind]
  /\ UNCHANGED <<view, stores, manualLocation, userLocation, mounted, newest,
                 call>>
  /\ Render

\* The promise is rejected (no geolocation, or the error callback): catch,
\* then finally.
Reject(r, kind) ==
  /\ UNCHANGED site
  /\ Arrived(r)
  /\ error' = Surfaced(kind)
  /\ loading' = FALSE
  /\ pending' = pending \ {r}
  /\ settled' = [id |-> r.id, ok |-> FALSE, had |-> r.had, kind |-> kind]
  /\ UNCHANGED <<view, stores, manualLocation, userLocation, mounted, nextReq,
                 newest, call>>
  /\ Render

\* setManualLocationHandler of StoreMap. Nothing sets manualLocation, so the
\* texts parse to NaN and the handler leaves the state as it is.
SetManualLocationHandler ==
  /\ UNCHANGED site
  /\ view = "StoreMap"
  /\ LET lat == ParseFloat(manualLocation.lat)
         lon == ParseFloat(manualLocation.lon)
     IN  IF ~lat.nan /\ ~lon.nan
         THEN /\ nextReq < MaxRequests
              /\ userLocation' = [lat |-> lat, lng |-> lon, req |-> nextReq + 1]
              /\ nextReq' = nextReq + 1
              /\ newest' = nextReq + 1
         ELSE UNCHANGED <<userLocation, nextReq, newest>>
  /\ UNCHANGED <<view, stores, manualLocation, loading, error, mounted, pending,
                 settled, call>>
  /\ Render

Next ==
  \/ MountEffect
  \/ RefreshClick
  \/ \E r \in pending, pos \in Positions : Resolve(r, pos)
  \/ \E r \in pending, kind \in FailureKinds : Reject(r, kind)
  \/ SetManualLocationHandler

Spec == Init /\ [][Next]_vars

----------------------------------------------------------------------------
(* The ranking on its own: getNearbyStores over store lists, before a      *)
(* location is held and with the first request's location                  *)

InitRank ==
  /\ SiteInit
  /\ view \in {"NearbyStores", "StoreMap"}
  /\ stores \in StoreLists
  /\ manualLocation = [lat |-> <<>>, lon |-> <<>>]
  /\ \/ /\ userLocation = Null
        /\ mounted = FALSE
        /\ nextReq = 0
        /\ newest = 0
        /\ settled = [id |-> 0, ok |-> TRUE, had |-> 0, kind |-> "none"]
     \/ /\ userLocation \in {Located(pos, 1) : pos \in Positions}
        /\ mounted = (view = "NearbyStores")
        /\ nextReq = 1
        /\ newest = 1
        /\ settled = [id |-> 1, ok |-> TRUE, had |-> 0, kind |-> "none"]
  /\ loading = FALSE
  /\ error = NoError
  /\ pending = {}
  /\ nearbyStores = <<>>
  /\ call = [op |-> "none"]

\* Rank sorting the stores prop itself (stores.sort) into the order returned.
RankInPlace ==
  /\ UNCHANGED site
  /\ call.op = "none"
  /\ nearbyStores' \in getNearbyStores(userLocation, stores)
  /\ stores' = [i \in 1..Len(nearbyStores') |-> nearbyStores'[i].store]
  /\ call' = [op |-> "getNearbyStores"]
  /\ UNCHANGED <<view, manualLocation, userLocation, loading, error,
                 mounted, pending, nextReq, newest, settled>>

Rank ==
  /\ UNCHANGED site
  /\ call.op = "none"
  /\ nearbyStores' \in getNearbyStores(userLocation, stores)
  /\ call' = [op |-> "getNearbyStores"]
  /\ UNCHANGED <<view, stores, manualLocation, userLocation, loading, error,
                 mounted, pending, nextReq, newest, settled>>

NextRank == Rank

SpecRank == InitRank /\ [][NextRank]_vars

----------------------------------------------------------------------------
(* calculateDirection on its own, over origins and targets around them     *)
(* (InitCall: the state before a call of a function specification)         *)

Origins ==
  { [lat |-> 0, lng |-> 0],
    [lat |-> 277058, lng |-> 853292],
    [lat |-> -338688, lng |-> 1512093] }

\* Offsets towards the sixteen points of the compass rose, and none.
Rose ==
  { <<1, 0>>, <<2, 1>>, <<1, 1>>, <<1, 2>>, <<0, 1>>, <<-1, 2>>, <<-1, 1>>,
    <<-2, 1>>, <<-1, 0>>, <<-2, -1>>, <<-1, -1>>, <<-1, -2>>, <<0, -1>>,
    <<1, -2>>, <<1, -1>>, <<2, -1>>, <<0, 0>> }

\* Offsets of 0.01, 1 and 10 degrees per step of the rose.
Reaches == {100, 10000, 100000}

Targets(o) ==
  {[lat |-> o.lat + d[1] * k, lng |-> o.lng + d[2] * k] : d \in Rose, k \in Reaches}

\* The locator before anything happened in it.
LocatorInit ==
  /\ view \in {"NearbyStores", "StoreMap"}
  /\ stores = <<>>
  /\ manualLocation = [lat |-> <<>>, lon |-> <<>>]
  /\ userLocation = Null
  /\ loading = FALSE
  /\ error = NoError
  /\ mounted = FALSE
  /\ pending = {}
  /\ nextReq = 0
  /\ newest = 0
  /\ settled = [id |-> 0, ok |-> TRUE, had |-> 0, kind |-> "none"]
  /\ nearbyStores = <<>>
  /\ call = [op |-> "none"]

InitCall == LocatorInit /\ SiteInit

Direction(o, t) ==
  /\ UNCHANGED site
  /\ call.op = "none"
  /\ call' = [op      |-> "calculateDirection",
              origin  |-> o,
              target  |-> t,
              bearing |-> bearing(Num(o.lat), Num(o.lng), Num(t.lat), Num(t.lng)),
              result  |-> calculateDirection(Num(o.lat), Num(o.lng),
                                             Num(t.lat), Num(t.lng))]
  /\ UNCHANGED <<view, stores, manualLocation, userLocation, loading, error,
                 mounted, pending, nextReq, newest, settled, nearbyStores>>

NextDirection == \E o \in Origins : \E t \in Targets(o) : Direction(o, t)

SpecDirection == InitCall /\ [][NextDirection]_vars

----------------------------------------------------------------------------
(* calculateDistance on its own, over the same origins and targets         *)

Distance(o, t) ==
  /\ UNCHANGED site
  /\ call.op = "none"
  /\ call' = [op     |-> "calculateDistance",
              origin |-> o,
              target |-> t,
              result |-> calculateDistance(Num(o.lat), Num(o.lng),
                                           Num(t.lat), Num(t.lng))]
  /\ UNCHANGED <<view, stores, manualLocation, userLocation, loading, error,
                 mounted, pending, nextReq, newest, settled, nearbyStores>>

NextDistance ==
  \E o \in Origins : \E t \in Targets(o) \cup SamplePoints : Distance(o, t)

SpecDistance == InitCall /\ [][NextDistance]_vars

----------------------------------------------------------------------------
(* The ranking of the built-in sample stores, in any order of the list     *)

InitSample ==
  /\ SiteInit
  /\ view = "NearbyStores"
  /\ stores \in Orderings(sampleStores)
  /\ manualLocation = [lat |-> <<>>, lon |-> <<>>]
  /\ userLocation \in {Located(pos, 1) : pos \in Positions}
  /\ loading = FALSE
  /\ error = NoError
  /\ mounted = TRUE
  /\ pending = {}
  /\ nextReq = 1
  /\ newest = 1
  /\ settled = [id |-> 1, ok |-> TRUE, had |-> 0, kind |-> "none"]
  /\ nearbyStores = <<>>
  /\ call = [op |-> "none"]

SpecSample == InitSample /\ [][NextRank]_vars

----------------------------------------------------------------------------
(* Repeated rankings: every location update renders, and the render ranks  *)
(* the stores again, on one engine                                         *)

\* The lists ranked repeatedly: stores near and far, one with a latitude
\* that is no number, one without coordinates.
RerankStoreIds == {2, 4, 6, 7}
RerankStoreLists ==
  {l \in StoreLists : \A i \in 1..Len(l) : l[i].id \in RerankStoreIds}

InitRerank ==
  /\ SiteInit
  /\ view \in {"NearbyStores", "StoreMap"}
  /\ stores \in RerankStoreLists
  /\ manualLocation = [lat |-> <<>>, lon |-> <<>>]
  /\ userLocation = Null
  /\ loading = FALSE
  /\ error = NoError
  /\ mounted = FALSE
  /\ pending = {}
  /\ nextReq = 0
  /\ newest = 0
  /\ settled = [id |-> 0, ok |-> TRUE, had |-> 0, kind |-> "none"]
  /\ nearbyStores = <<>>
  /\ \E engine \in Engines :
       call = [op |-> "none", engine |-> engine, returned |-> <<>>]

\* setUserLocation with a position, and the render after it: getNearbyStores
\* is called again; call.returned lists the calls with what they returned.
Relocate(pos) ==
  /\ UNCHANGED site
  /\ nextReq < MaxRequests
  /\ userLocation' = Located(pos, nextReq + 1)
  /\ nextReq' = nextReq + 1
  /\ newest' = nextReq + 1
  /\ settled' = [id |-> nextReq + 1, ok |-> TRUE, had |-> Stamp(userLocation),
                 kind |-> "none"]
  /\ nearbyStores' = getNearbyStoresOn(call.engine, userLocation', stores)
  /\ call' = [op       |-> "getNearbyStores",
              engine   |-> call.engine,
              returned |-> Append(call.returned,
                                  [at |-> pos, result |-> nearbyStores'])]
  /\ UNCHANGED <<view, stores, manualLocation, loading, error, mounted,
                 pending>>

NextRerank == \E pos \in Positions : Relocate(pos)

SpecRerank == InitRerank /\ [][NextRerank]_vars

----------------------------------------------------------------------------
(* formatDistance on its own, over distances up to MaxKm                   *)

MaxKm == 5

\* Distances in steps of 10 m and some next to 1 km and to 1.05 km. Decimal
\* ties of toFixed (x.x5 km) are left out: the binary value of such a
\* distance decides them.
FormatInputs ==
  {d \in 0..(MaxKm * NumScale) : d % 100 = 0 /\ d % 1000 # 500}
    \cup {9994, 9996, 9999, 10001, 10499, 10501}

Format(d) ==
  /\ UNCHANGED site
  /\ call.op = "none"
  /\ call' = [op |-> "formatDistance", arg |-> d, result |-> formatDistance(Num(d))]
  /\ UNCHANGED <<view, stores, manualLocation, userLocation, loading, error,
                 mounted, pending, nextReq, newest, settled, nearbyStores>>

NextFormat == \E d \in FormatInputs : Format(d)

SpecFormat == InitCall /\ [][NextFormat]_vars

----------------------------------------------------------------------------
(* The auth store (use-auth), hasPermission, hasAdminAccess and            *)
(* ProtectedAdminRoute                                                     *)

Roles == {"customer", "store_owner", "admin", "super_admin"}
Permissions == {"manage_users", "manage_stores"}

\* user?.role === 'admin' || user?.role === 'super_admin': null and
\* undefined have no role.
IsAdminRole(user) ==
  "role" \in DOMAIN user /\ user.role \in {"admin", "super_admin"}

hasAdminAccess(user) == IsAdminRole(user)

\* hasPermission with some() for every().
hasPermissionAny(user, requiredPermissions) ==
  IF user = Null THEN FALSE
  ELSE IF user.role = "super_admin" THEN TRUE
  ELSE \E permission \in requiredPermissions : permission \in user.permissions

hasPermission(user, requiredPermissions) ==
  IF user = Null THEN FALSE
  ELSE IF user.role = "super_admin" THEN TRUE
  ELSE \A permission \in requiredPermissions : permission \in user.permissions

\* setUser taking 'admin' alone for an admin role.
SetUserAdminOnly(user) ==
  /\ auth' = [auth EXCEPT !.user = user,
                         !.isAuthenticated = user # Null,
                         !.isAdmin = user # Null /\ user.role = "admin"]
  /\ call' = [op |-> "setUser"]
  /\ UNCHANGED <<locator, admin, cart, timeLeft>>

SetUser(user) ==
  /\ auth' = [auth EXCEPT !.user = user,
                         !.isAuthenticated = user # Null,
                         !.isAdmin = IsAdminRole(user)]
  /\ call' = [op |-> "setUser"]
  /\ UNCHANGED <<locator, admin, cart, timeLeft>>

SetToken(token) ==
  /\ auth' = [auth EXCEPT !.token = token]
  /\ call' = [op |-> "setToken"]
  /\ UNCHANGED <<locator, admin, cart, timeLeft>>

Logout ==
  /\ auth' = [user |-> Null, isAuthenticated |-> FALSE, isAdmin |-> FALSE,
              token |-> Null]
  /\ call' = [op |-> "logout"]
  /\ UNCHANGED <<locator, admin, cart, timeLeft>>

\* What ProtectedAdminRoute renders: hasAdminAccess is called without an
\* argument, so its user is undefined (a value without a role).
ProtectedAdminRoute ==
  IF ~auth.isAuthenticated THEN "/login"
  ELSE IF ~hasAdminAccess([undefined |-> TRUE]) THEN "/"
  ELSE "children"

RenderProtectedAdminRoute ==
  /\ call' = [op |-> "ProtectedAdminRoute", result |-> ProtectedAdminRoute]
  /\ UNCHANGED <<locator, site>>

HasPermission(requiredPermissions) ==
  /\ call' = [op       |-> "hasPermission",
              user     |-> auth.user,
              required |-> requiredPermissions,
              result   |-> hasPermission(auth.user, requiredPermissions)]
  /\ UNCHANGED <<locator, site>>

NextAuth ==
  \/ \E user \in [role : Roles, permissions : SUBSET Permissions] \cup {Null} :
       SetUser(user)
  \/ \E token \in {[jwt |-> "a"], [jwt |-> "b"], Null} : SetToken(token)
  \/ Logout
  \/ RenderProtectedAdminRoute
  \/ \E required \in SUBSET Permissions : HasPermission(required)

SpecAuth == InitCall /\ [][NextAuth]_vars

-----------------------------------------------------------------------------
(* AdminPanel: the access check at mount, the login mutation, the logout   *)

\* response.ok, and data.role is "super_admin" or "admin": neither throw is
\* taken.
Accepted(resp) == resp.ok /\ resp.role \in {"super_admin", "admin"}

\* The instance of AdminPanel on the page: a state setter of an instance
\* that is no longer on the page changes nothing.
OnPage(i) == admin.location = "/admin" /\ admin.instance = i

\* enabled: isAdminAuthenticated, of the queries of the panel on the page.
QueriesEnabled == admin.location = "/admin" /\ admin.isAdminAuthenticated

\* The route /admin is entered again: a new AdminPanel, useState(false), and
\* its effect starts checkAdminAccess.
Mount ==
  /\ admin.location = "/"
  /\ admin.instance < MaxVisits
  /\ admin' = [admin EXCEPT !.location = "/admin",
                            !.instance = admin.instance + 1,
                            !.isAdminAuthenticated = FALSE,
                            !.by = "none",
                            !.verifies = admin.verifies
                                           \cup {admin.instance + 1},
                            !.event = [op |-> "mount"]]
  /\ UNCHANGED <<locator, call, auth, cart, timeLeft>>

\* checkAdminAccess after its await: try, or catch.
VerifyResponds(i, resp) ==
  /\ i \in admin.verifies
  /\ admin' =
       IF Accepted(resp)
       THEN [admin EXCEPT
               !.verifies = admin.verifies \ {i},
               !.isAdminAuthenticated =
                  IF OnPage(i) THEN TRUE ELSE admin.isAdminAuthenticated,
               !.by = IF OnPage(i) THEN "verify" ELSE admin.by,
               !.event = [op |-> "verify", ok |-> resp.ok,
                          role |-> resp.role]]
       ELSE [admin EXCEPT
               !.verifies = admin.verifies \ {i},
               !.isAdminAuthenticated =
                  IF OnPage(i) THEN FALSE ELSE admin.isAdminAuthenticated,
               !.by = IF OnPage(i) THEN "none" ELSE admin.by,
               !.location = "/",
               !.event = [op |-> "verify", ok |-> resp.ok,
                          role |-> resp.role]]
  /\ UNCHANGED <<locator, call, auth, cart, timeLeft>>

\* handleLogin: the form is rendered while !isAdminAuthenticated, its button
\* disabled while loginMutation.isPending.
HandleLogin ==
  /\ admin.location = "/admin"
  /\ ~admin.isAdminAuthenticated
  /\ admin.instance \notin admin.logins
  /\ admin' = [admin EXCEPT !.logins = admin.logins \cup {admin.instance},
                            !.event = [op |-> "handleLogin"]]
  /\ UNCHANGED <<locator, call, auth, cart, timeLeft>>

\* loginMutation without the check of the role.
LoginRespondsAnyRole(i, resp) ==
  /\ i \in admin.logins
  /\ admin' =
       IF resp.ok
       THEN [admin EXCEPT
               !.logins = admin.logins \ {i},
               !.adminToken = [jwt |-> "t"],
               !.isAdminAuthenticated =
                  IF OnPage(i) THEN TRUE ELSE admin.isAdminAuthenticated,
               !.by = IF OnPage(i) THEN "login" ELSE admin.by,
               !.event = [op |-> "login", ok |-> resp.ok, role |-> resp.role]]
       ELSE [admin EXCEPT
               !.logins = admin.logins \ {i},
               !.event = [op |-> "login", ok |-> resp.ok, role |-> resp.role]]
  /\ UNCHANGED <<locator, call, auth, cart, timeLeft>>

\* loginMutation after its await: mutationFn stores the token and onSuccess
\* sets the flag, or mutationFn throws and onError shows the message.
LoginResponds(i, resp) ==
  /\ i \in admin.logins
  /\ admin' =
       IF Accepted(resp)
       THEN [admin EXCEPT
               !.logins = admin.logins \ {i},
               !.adminToken = [jwt |-> "t"],
               !.isAdminAuthenticated =
                  IF OnPage(i) THEN TRUE ELSE admin.isAdminAuthenticated,
               !.by = IF OnPage(i) THEN "login" ELSE admin.by,
               !.event = [op |-> "login", ok |-> resp.ok, role |-> resp.role]]
       ELSE [admin EXCEPT
               !.logins = admin.logins \ {i},
               !.event = [op |-> "login", ok |-> resp.ok, role |-> resp.role]]
  /\ UNCHANGED <<locator, call, auth, cart, timeLeft>>

\* handleLogout, behind the Logout button of the authenticated panel.
HandleLogout ==
  /\ admin.location = "/admin"
  /\ admin.isAdminAuthenticated
  /\ admin' = [admin EXCEPT !.adminToken = Null,
                            !.isAdminAuthenticated = FALSE,
                            !.by = "none",
                            !.location = "/",
                            !.event = [op |-> "handleLogout"]]
  /\ UNCHANGED <<locator, call, auth, cart, timeLeft>>

InitAdmin ==
  /\ LocatorInit
  /\ AuthInit
  /\ admin \in {AdminMounted(token) : token \in {Null, [jwt |-> "t"]}}
  /\ CartInit
  /\ CountdownInit

\* resp: response.ok and the role of the body, as /api/admin/verify and
\* /api/admin/login answer.
NextAdmin ==
  \/ Mount
  \/ \E i \in 1..MaxVisits : \E resp \in [ok : BOOLEAN, role : Roles] :
       VerifyResponds(i, resp)
  \/ HandleLogin
  \/ \E i \in 1..MaxVisits : \E resp \in [ok : BOOLEAN, role : Roles] :
       LoginResponds(i, resp)
  \/ HandleLogout

SpecAdmin == InitAdmin /\ [][NextAdmin]_vars

-----------------------------------------------------------------------------
(* Cart: the quantity controls of one item                                 *)

\* item.product?.stock || 0
StockOr0(product) ==
  IF "stock" \in DOMAIN product THEN product.stock ELSE 0

\* disabled={item.quantity >= (item.product?.stock || 0)}
PlusDisabled(item) == item.quantity >= StockOr0(item.product)

\* updateCartItem of the useCart hook, settled: the item shows the new
\* quantity when the update went through and the old one when it failed.
updateCartItem(item, newQuantity, ok) ==
  IF ok THEN newQuantity ELSE item.quantity

\* handleUpdateQuantity up to its await.
Request(newQuantity, button) ==
  /\ cart.clicks < MaxClicks
  /\ cart' = [cart EXCEPT !.updates = cart.updates \cup {newQuantity},
                          !.requested = cart.requested \cup {newQuantity},
                          !.clicks = cart.clicks + 1,
                          !.event = [op |-> button, shown |-> cart.quantity,
                                     to |-> newQuantity]]
  /\ UNCHANGED <<locator, call, auth, admin, timeLeft>>

\* The minus button: handleUpdateQuantity(item.id, item.quantity - 1),
\* disabled={item.quantity <= 1}.
MinusClick ==
  /\ ~(cart.quantity <= 1)
  /\ Request(cart.quantity - 1, "minus")

\* The plus button without its disabled attribute.
PlusClickAlways ==
  /\ Request(cart.quantity + 1, "plus")

\* The plus button: handleUpdateQuantity(item.id, item.quantity + 1).
PlusClick ==
  /\ ~PlusDisabled(cart)
  /\ Request(cart.quantity + 1, "plus")

\* handleUpdateQuantity after its await, the update gone through.
UpdateSucceeds(newQuantity) ==
  /\ newQuantity \in cart.updates
  /\ cart' = [cart EXCEPT !.updates = cart.updates \ {newQuantity},
                          !.quantity = updateCartItem(cart, newQuantity, TRUE),
                          !.event = [op |-> "updated", shown |-> cart.quantity,
                                     to |-> newQuantity]]
  /\ UNCHANGED <<locator, call, auth, admin, timeLeft>>

\* handleUpdateQuantity after its await, in its catch branch: the toast.
UpdateFails(newQuantity) ==
  /\ newQuantity \in cart.updates
  /\ cart' = [cart EXCEPT !.updates = cart.updates \ {newQuantity},
                          !.quantity = updateCartItem(cart, newQuantity, FALSE),
                          !.toast = [title |-> "Error",
                                     description |-> "Failed to update quantity"],
                          !.event = [op |-> "failed", shown |-> cart.quantity,
                                     to |-> newQuantity]]
  /\ UNCHANGED <<locator, call, auth, admin, timeLeft>>

\* item.product: missing, without a stock, or with a stock of 0..MaxStock.
InitCart ==
  /\ LocatorInit
  /\ AuthInit
  /\ AdminInit
  /\ cart \in {CartShowing(product, quantity) :
                 product \in {Null, [name |-> "p"]}
                               \cup {[stock |-> n] : n \in 0..MaxStock},
                 quantity \in 1..MaxStock}
  /\ CountdownInit

NextCart ==
  \/ MinusClick
  \/ PlusClick
  \/ \E newQuantity \in 0..(MaxStock + 1) : UpdateSucceeds(newQuantity)
  \/ \E newQuantity \in 0..(MaxStock + 1) : UpdateFails(newQuantity)

SpecCart == InitCart /\ [][NextCart]_vars

-----------------------------------------------------------------------------
(* Homepage: the countdown                                                 *)

\* String.prototype.padStart(n, c) with a one-character c.
RECURSIVE padStart(_, _, _)
padStart(s, n, c) == IF Len(s) >= n THEN s ELSE padStart(<<c>> \o s, n, c)

\* String(Math.floor(timeLeft / 3600)).padStart(2, '0')
hours(t) == padStart(IntToStr(t \div 3600), 2, "0")

\* String(Math.floor((timeLeft % 3600) / 60)).padStart(2, '0')
minutes(t) == padStart(IntToStr((t % 3600) \div 60), 2, "0")

\* String(timeLeft % 60).padStart(2, '0')
seconds(t) == padStart(IntToStr(t % 60), 2, "0")

\* The timer callback without the test of prev > 0.
TickUnclamped ==
  /\ timeLeft' = timeLeft - 1
  /\ UNCHANGED <<locator, call, auth, admin, cart>>

\* setTimeLeft((prev) => (prev > 0 ? prev - 1 : 0)), every second.
Tick ==
  /\ timeLeft' = IF timeLeft > 0 THEN timeLeft - 1 ELSE 0
  /\ UNCHANGED <<locator, call, auth, admin, cart>>

SpecCountdown == InitCall /\ [][Tick]_vars

----------------------------------------------------------------------------
(* Properties                                                              *)

\* getNearbyStores has returned nearbyStores for a user location.
Ranked == call.op = "getNearbyStores" /\ userLocation # Null

\* The distance in km of a ranked store from the user location.
distanceKm(s) ==
  calculateDistance(userLocation.lat, userLocation.lng,
                    s.storeLocation.lat, s.storeLocation.lng)

\* C1: the list getNearbyStores returns is in non-decreasing order of the
\* numeric distance in km from the user location, also when some stores are
\* nearer than 1 km and others farther (stated for lists whose distances
\* are all numbers).
C1_SortedByDistanceKm ==
  (Ranked /\ \A i \in 1..Len(nearbyStores) : ~distanceKm(nearbyStores[i]).nan)
    => \A i \in 1..(Len(nearbyStores) - 1) :
         distanceKm(nearbyStores[i]).v <= distanceKm(nearbyStores[i + 1]).v

CompassPoints == {directions[i] : i \in 1..8}

\* C2: calculateDirection returns one of N, NE, E, SE, S, SW, W, NW for
\* every origin and target, never undefined.
C2_DirectionDefined ==
  call.op = "calculateDirection" => call.result \in CompassPoints

\* The two kinds of step that settle a getUserLocation call.
Settles == settled' # settled

\* C3: a getUserLocation call that resolves after a newer location update
\* was committed still commits its own, older result to userLocation: no
\* request token guards the update.
C3_StaleResultCommitted ==
  [][(Settles /\ settled'.ok /\ settled'.id < newest)
       => /\ userLocation' # Null
          /\ userLocation'.req = settled'.id
          /\ userLocation'.req < newest']_vars

\* C3: userLocation holds the result of an older request after a newer one
\* was committed.
C3_StaleLocation == userLocation # Null /\ userLocation.req < newest

\* The text of the field is there, not empty, and no number.
Unparseable(store, field) ==
  /\ field \in DOMAIN store
  /\ store[field] # <<>>
  /\ ParseFloat(store[field]).nan

\* C4: every coordinate that reaches the distance and bearing computation
\* is a number, and a coordinate whose text is not empty and not parseable
\* is taken as 0.
C4_UnparseableCoercedToZero ==
  Ranked =>
    \A i \in 1..Len(nearbyStores) :
      /\ ~nearbyStores[i].storeLocation.lat.nan
      /\ ~nearbyStores[i].storeLocation.lng.nan
      /\ Unparseable(nearbyStores[i].store, "latitude")
           => nearbyStores[i].storeLocation.lat = Num(0)
      /\ Unparseable(nearbyStores[i].store, "longitude")
           => nearbyStores[i].storeLocation.lng = Num(0)

\* C5: with a user location, the list getNearbyStores returns holds every
\* store of the input exactly once and nothing else.
C5_OutputIsPermutation ==
  Ranked =>
    /\ Len(nearbyStores) = Len(stores)
    /\ \A i \in 1..Len(stores) :
         Cardinality({j \in 1..Len(nearbyStores) :
                        nearbyStores[j].store = stores[i]}) = 1

\* C5: a list of three or more stores was ranked, one of them with a
\* coordinate that is no number, and the order changed.
C5_RankedEveryStore ==
  /\ Ranked
  /\ Len(stores) >= 3
  /\ \E i \in 1..Len(nearbyStores) : nearbyStores[i].storeLocation.lat.nan
  /\ \E i \in 1..Len(nearbyStores) : nearbyStores[i].store # stores[i]

\* The place of a store in the list returned.
Position(store) ==
  CHOOSE k \in 1..Len(nearbyStores) : nearbyStores[k].store = store

\* Two stores at the same numeric distance from the user location.
EqualDistance(a, b) ==
  /\ ~distanceKm(rankedStore(userLocation, a)).nan
  /\ distanceKm(rankedStore(userLocation, a)) =
       distanceKm(rankedStore(userLocation, b))

IsDigits(s) == s # <<>> /\ \A i \in 1..Len(s) : IsDigit(s[i])

\* Digits, a point and one digit.
IsOneDecimal(s) ==
  /\ Len(s) >= 3
  /\ s[Len(s) - 1] = "."
  /\ IsDigits(SubSeq(s, 1, Len(s) - 2))
  /\ IsDigit(s[Len(s)])

\* s without its last n characters.
DropLast(s, n) == SubSeq(s, 1, Len(s) - n)

Azimuth(b) == IF b.v < 0 THEN b.v + 360 * NumScale ELSE b.v

\* C8: for the azimuth theta in [0, 360) of the target, the direction
\* chosen is directions[round(theta / 45) mod 8].
C8_BucketOfAzimuth ==
  call.op = "calculateDirection"
    => call.result = directions[(RoundDiv45(Azimuth(call.bearing)) % 8) + 1]

\* x is at most max degrees either way (a coordinate that is no number is
\* C4's matter and passes here).
InRange(x, max) == x.nan \/ Abs(x.v) <= max * NumScale

\* C9: every point the ranker uses, the user location and each store's
\* parsed coordinates, has its latitude in [-90, 90] and its longitude in
\* [-180, 180].
C9_CoordinatesInRange ==
  /\ userLocation # Null
       => InRange(userLocation.lat, 90) /\ InRange(userLocation.lng, 180)
  /\ \A i \in 1..Len(nearbyStores) :
       /\ InRange(nearbyStores[i].storeLocation.lat, 90)
       /\ InRange(nearbyStores[i].storeLocation.lng, 180)

\* C10 as claimed: once a getUserLocation call issued while a location was
\* held has settled, userLocation no longer holds that location, also when
\* the call failed.
C10_PreviousLocationDiscarded ==
  settled.had # 0 => Stamp(userLocation) # settled.had

\* C10 as amended: a getUserLocation call that settles with a position
\* replaces userLocation by the point it obtained; one that fails leaves
\* userLocation as it was and sets the error message.
C10_ReplacedOnSuccessOnly ==
  [][Settles =>
       IF settled'.ok
       THEN userLocation' # Null /\ userLocation'.req = settled'.id
       ELSE userLocation' = userLocation /\ error' = ErrorMessage]_vars

\* C10: a refresh issued while a location was held has failed, and that
\* location is still held.
C10_KeptAfterFailedRefresh ==
  /\ settled.had # 0
  /\ ~settled.ok
  /\ userLocation # Null
  /\ userLocation.req = settled.had
  /\ error = ErrorMessage

\* A step that issues a position request.
Requests == \E r \in pending' : r \notin pending

\* C11: a step in which a getUserLocation call fails sets the error, ends
\* loading (the Refresh button is enabled) and issues no position request;
\* every request issued once a call has settled is issued by a click on the
\* Refresh button.
C11_NoAutomaticRetry ==
  [][/\ (Settles /\ ~settled'.ok)
          => (error' = ErrorMessage /\ ~loading' /\ ~Requests)
     /\ (settled.id # 0 /\ Requests) => RefreshClick]_vars

\* C11: a call has failed, the error is shown, the button is enabled and
\* no request is in flight.
C11_FailureSurfaced ==
  /\ settled.id # 0
  /\ ~settled.ok
  /\ error = ErrorMessage
  /\ ~loading
  /\ pending = {}

\* C12: the error shown after a failed getUserLocation call identifies the
\* kind of the failure: no other kind of failure gives the same text.
C12_ErrorIdentifiesKind ==
  (settled.id # 0 /\ ~settled.ok /\ error # NoError)
    => \A kind \in FailureKinds \ {settled.kind} : Surfaced(kind) # error

\* A text: a sequence of characters, not empty.
IsText(s) == DOMAIN s = 1..Len(s) /\ Len(s) > 0

\* C13: getNearbyStores returns for every user location and store list,
\* also with coordinate texts that are missing, empty or no number, and what
\* it returns has one entry with a distance text for each store.
C13_RankingNeverThrows ==
  /\ call.op = "none" => getNearbyStores(userLocation, stores) # {}
  /\ Ranked =>
       /\ Len(nearbyStores) = Len(stores)
       /\ \A i \in 1..Len(nearbyStores) : IsText(nearbyStores[i].distance)

\* The text of the field is missing or empty.
Blank(store, field) == field \notin DOMAIN store \/ store[field] = <<>>

\* C13: a list with a store without coordinates and a store whose latitude
\* is no number was ranked.
C13_RankedMalformed ==
  /\ Ranked
  /\ \E i \in 1..Len(stores) : Blank(stores[i], "latitude")
  /\ \E i \in 1..Len(stores) : Unparseable(stores[i], "latitude")
  /\ Len(nearbyStores) = Len(stores)

\* C15: a call of getNearbyStores leaves the stores list (its order and its
\* records), the user location, loading and error as they were; the order
\* returned is that of a new list.
C15_RankingLeavesInputs ==
  [][(call.op = "none" /\ call'.op = "getNearbyStores")
       => /\ stores' = stores
          /\ userLocation' = userLocation
          /\ loading' = loading
          /\ error' = error]_vars

\* C15: the ranking returned the stores in another order than that of the
\* input, the last store of the input first.
C15_SortedACopy ==
  /\ Ranked
  /\ Len(stores) >= 2
  /\ nearbyStores[1].store = stores[Len(stores)]
  /\ nearbyStores[1].store # stores[1]

\* The coordinates of the ranked store are numbers.
NumericPlace(s) == ~s.storeLocation.lat.nan /\ ~s.storeLocation.lng.nan

\* C16: the distance text of every ranked store (with numeric coordinates)
\* is formatDistance of its distance in km from the user location, a space,
\* and a compass point in parentheses.
C16_DisplayString ==
  Ranked =>
    \A i \in 1..Len(nearbyStores) :
      NumericPlace(nearbyStores[i]) =>
        \E point \in CompassPoints :
          nearbyStores[i].distance =
            formatDistance(distanceKm(nearbyStores[i]))
              \o <<" ", "(">> \o point \o <<")">>

\* C17: a store whose latitude or longitude text is missing or empty is in
\* the list returned, with that coordinate 0.
C17_BlankCoordinateIsZero ==
  Ranked =>
    \A i \in 1..Len(stores) :
      /\ Blank(stores[i], "latitude") =>
           \E j \in 1..Len(nearbyStores) :
             /\ nearbyStores[j].store = stores[i]
             /\ nearbyStores[j].storeLocation.lat = Num(0)
      /\ Blank(stores[i], "longitude") =>
           \E j \in 1..Len(nearbyStores) :
             /\ nearbyStores[j].store = stores[i]
             /\ nearbyStores[j].storeLocation.lng = Num(0)

\* C17: a store with no latitude and an empty longitude was ranked at (0, 0)
\* together with other stores.
C17_RankedAtZero ==
  /\ Ranked
  /\ Len(stores) >= 2
  /\ \E j \in 1..Len(nearbyStores) :
       /\ "latitude" \notin DOMAIN nearbyStores[j].store
       /\ nearbyStores[j].store.longitude = <<>>
       /\ nearbyStores[j].storeLocation = [lat |-> Num(0), lng |-> Num(0)]

AtKathmandu ==
  /\ userLocation # Null
  /\ userLocation.lat = ParseFloat(sampleStores[1].latitude)
  /\ userLocation.lng = ParseFloat(sampleStores[1].longitude)

\* stores are the five sample stores.
SampleRanked ==
  /\ Ranked
  /\ Len(stores) = Len(sampleStores)
  /\ \A i \in 1..Len(sampleStores) :
       \E j \in 1..Len(stores) : stores[j] = sampleStores[i]

\* C18: with the five sample stores and the user at the Kathmandu store's
\* coordinates, the Lalitpur store (4) comes before the Birgunj store (5)
\* in the list returned.
C18_LalitpurBeforeBirgunj ==
  (SampleRanked /\ AtKathmandu)
    => Position(sampleStores[4]) < Position(sampleStores[5])

\* C18: the sample stores in their own order were ranked from Kathmandu:
\* Kathmandu, Lalitpur, Birgunj come first.
C18_SampleRanked ==
  /\ SampleRanked
  /\ AtKathmandu
  /\ stores = sampleStores
  /\ nearbyStores[1].store.id = 1
  /\ nearbyStores[2].store.id = 4
  /\ nearbyStores[3].store.id = 5

\* The call is calculateDirection from (0, 0) to (lat, lng) whole degrees.
FromZeroTo(lat, lng) ==
  /\ call.op = "calculateDirection"
  /\ call.origin = [lat |-> 0, lng |-> 0]
  /\ call.target = [lat |-> lat * NumScale, lng |-> lng * NumScale]

\* C19: calculateDirection gives "N" from (0, 0) to (1, 0) and "E" from
\* (0, 0) to (0, 1).
C19_NorthAndEast ==
  /\ FromZeroTo(1, 0) => call.result = <<"N">>
  /\ FromZeroTo(0, 1) => call.result = <<"E">>

\* C19: calculateDirection was applied from (0, 0) to (0, 1) with bearing 90.
C19_DueEast == FromZeroTo(0, 1) /\ call.bearing = Num(90 * NumScale)

\* C20: calculateDistance from a point to the same point is exactly 0.
C20_DistanceToSelfIsZero ==
  (call.op = "calculateDistance" /\ call.origin = call.target)
    => call.result = Num(0)

\* C20: calculateDistance was applied to a point off the equator and itself.
C20_MeasuredToSelf ==
  /\ call.op = "calculateDistance"
  /\ call.origin = call.target
  /\ call.origin.lat # 0

\* C21: calculateDistance from a to b equals calculateDistance from b to a.
C21_DistanceSymmetric ==
  call.op = "calculateDistance"
    => call.result = calculateDistance(Num(call.target.lat), Num(call.target.lng),
                                       Num(call.origin.lat), Num(call.origin.lng))

\* C21: calculateDistance was applied to two points of different latitude
\* and longitude, some distance apart.
C21_MeasuredApart ==
  /\ call.op = "calculateDistance"
  /\ call.origin.lat # call.target.lat
  /\ call.origin.lng # call.target.lng
  /\ call.result.v > 100 * NumScale

\* The call is calculateDistance from the Kathmandu sample store to the
\* Biratnagar one.
KathmanduToBiratnagar ==
  /\ call.op = "calculateDistance"
  /\ call.origin = [lat |-> 277058, lng |-> 853292]
  /\ call.target = [lat |-> 264672, lng |-> 872744]

\* C22 as claimed: calculateDistance from Kathmandu (27.7058, 85.3292) to
\* Biratnagar (26.4672, 87.2744) is between 278 and 288 km.
C22_About283Km ==
  KathmanduToBiratnagar
    => /\ ~call.result.nan
       /\ call.result.v >= 278 * NumScale
       /\ call.result.v <= 288 * NumScale

\* C22 as amended: that distance is within 5 km of 237 km.
C22_About237Km ==
  KathmanduToBiratnagar
    => /\ ~call.result.nan
       /\ call.result.v >= 232 * NumScale
       /\ call.result.v <= 242 * NumScale

\* C22: the distance from Kathmandu to Biratnagar was computed, a number.
C22_Measured == KathmanduToBiratnagar /\ ~call.result.nan

\* C23 as claimed: ProtectedAdminRoute renders its children exactly for an
\* authenticated user with role admin or super_admin, redirects to /login
\* without an authenticated user and to / otherwise.
C23_AdminRouteGuard ==
  call.op = "ProtectedAdminRoute" =>
    call.result = (IF auth.user = Null THEN "/login"
                   ELSE IF auth.user.role \in {"admin", "super_admin"}
                        THEN "children"
                        ELSE "/")

\* The flags of the auth store agree with its user.
AuthFlags(a) ==
  /\ a.isAuthenticated <=> a.user # Null
  /\ a.isAdmin <=> (a.user # Null /\ a.user.role \in {"admin", "super_admin"})
  /\ a.isAdmin => a.isAuthenticated

\* C24: through every setUser, setToken and logout, isAuthenticated is true
\* exactly when user is not null and isAdmin exactly when the user's role
\* is admin or super_admin; setToken changes the token only; logout leaves
\* user and token null and both flags false.
C24_AuthFlagsFollowUser ==
  [][/\ AuthFlags(auth) /\ AuthFlags(auth')
     /\ call'.op = "setToken"
          => [auth' EXCEPT !.token = auth.token] = auth
     /\ call'.op = "logout"
          => auth' = [user |-> Null, isAuthenticated |-> FALSE,
                      isAdmin |-> FALSE, token |-> Null]]_vars

\* C24: after a setToken, a super_admin is the user, with a token.
C24_SuperAdminWithToken ==
  /\ call.op = "setToken"
  /\ auth.user # Null
  /\ auth.user.role = "super_admin"
  /\ auth.isAdmin
  /\ auth.token # Null

\* C28: hasPermission is false for no user, true for a super_admin, and
\* for another user true exactly when user.permissions has every required
\* permission.
C28_HasPermission ==
  call.op = "hasPermission" =>
    /\ call.user = Null => ~call.result
    /\ (call.user # Null /\ call.user.role = "super_admin") => call.result
    /\ (call.user # Null /\ call.user.role # "super_admin")
         => (call.result <=> call.required \subseteq call.user.permissions)

\* C28: hasPermission was true for an admin and an empty list although the
\* admin has no permission.
C28_EmptyRequired ==
  /\ call.op = "hasPermission"
  /\ call.user # Null
  /\ call.user.role = "admin"
  /\ call.user.permissions = {}
  /\ call.required = {}
  /\ call.result

\* C27: loading is true exactly while a location request is outstanding; in
\* no reachable state is loading false while a request is still pending.
C27_LoadingWhilePending == loading <=> pending # {}

\* The panel on the page is authenticated, and the login mutation made it so.
LoggedIn ==
  /\ admin.location = "/admin"
  /\ admin.isAdminAuthenticated
  /\ admin.by = "login"

\* C25: once the login mutation has set isAdminAuthenticated, only
\* handleLogout resets it or leaves the panel: a failing access check that
\* completes after the login neither resets the flag nor redirects to /.
C25_LoginOutlivesVerify ==
  [][(LoggedIn /\ (~admin'.isAdminAuthenticated \/ admin'.location = "/"))
       => admin'.event.op = "handleLogout"]_vars

\* The step is the arrival of a verify or login response.
IsResponse(event) == event.op \in {"verify", "login"}

\* C26: isAdminAuthenticated becomes true, and adminToken is written, only
\* on a verify or login response that is ok with role admin or super_admin;
\* any other response leaves a false isAdminAuthenticated false and the
\* stored token as it was; the queries are enabled only while
\* isAdminAuthenticated is true.
C26_OnlyAcceptedResponses ==
  [][/\ (~admin.isAdminAuthenticated /\ admin'.isAdminAuthenticated)
          => IsResponse(admin'.event) /\ Accepted(admin'.event)
     /\ (admin'.adminToken # admin.adminToken /\ admin'.adminToken # Null)
          => IsResponse(admin'.event) /\ Accepted(admin'.event)
     /\ (IsResponse(admin'.event) /\ ~Accepted(admin'.event))
          => /\ admin'.adminToken = admin.adminToken
             /\ ~admin.isAdminAuthenticated => ~admin'.isAdminAuthenticated
     /\ QueriesEnabled' => admin'.isAdminAuthenticated
    ]_vars

\* C26: a login answered ok with role admin has authenticated the panel and
\* stored the token.
C26_LoggedInWithToken ==
  /\ QueriesEnabled
  /\ admin.event.op = "login"
  /\ admin.event.ok
  /\ admin.event.role = "admin"
  /\ admin.adminToken # Null

\* The item started with a quantity between 1 and the stock of its product.
WithinStock == 1 <= cart.start /\ cart.start <= StockOr0(cart.product)

Displayed(s) == DigitsValue(s, 1, Len(s), 0)

\* 0 <= timeLeft <= 86400, and the display adds up to timeLeft.
CountdownShown(t) ==
  /\ 0 <= t /\ t <= 86400
  /\ Displayed(hours(t)) * 3600 + Displayed(minutes(t)) * 60
       + Displayed(seconds(t)) = t

\* C30: the countdown starts at 86400; each tick takes 1 off timeLeft while
\* it is positive and leaves it at 0 afterwards; in every state
\* 0 <= timeLeft <= 86400 and hours*3600 + minutes*60 + seconds = timeLeft.
C30_Countdown ==
  /\ timeLeft = 86400
  /\ [][/\ CountdownShown(timeLeft)
        /\ CountdownShown(timeLeft')
        /\ timeLeft' = IF timeLeft > 0 THEN timeLeft - 1 ELSE 0]_vars

\* C30: the countdown has run down to 0.
C30_RunDown == timeLeft = 0 /\ seconds(timeLeft) = <<"0", "0">>

====
